---- MODULE Spec2Model ----
(***************************************************************************)
(* Model of the SMS scheduler backend, src/backend/main.go: the version    *)
(* of the file with the Twilio client, which starts at line 287.           *)
(*                                                                         *)
(* The HTTP handlers run concurrently with the goroutine of the poll loop; *)
(* every database statement is one step.  Time is counted in units of      *)
(* 1/UnitsPerSecond second.  The clock `now` advances to the next instant  *)
(* at which the goroutine of the poll loop wakes up (a tick of one of its  *)
(* tickers, the return of a provider call, the end of a retry sleep); the  *)
(* goroutine resumes at that instant, and HTTP requests are processed at   *)
(* these instants, in any order with the steps of the poll loop.           *)
(***************************************************************************)
EXTENDS Integers, Sequences, FiniteSets, TLC

\* ---------------------------------------------------------------- bounds
UnitsPerSecond == 2
MaxId == 2
MaxRequests == 2
MaxDue == 3
MaxCallDur == 1
MaxTicks == 2
MaxLive == 1

\* ------------------------------------------------------ program constants
\* time.NewTicker(30 * time.Second)
pollInterval == 30 * UnitsPerSecond
minIntervalMutant == UnitsPerSecond \div 2
\* time.Tick(1 * time.Second)
minInterval == 1 * UnitsPerSecond
maxRetriesMutant == 3 + 1
maxRetries == 3
\* retryDelay := 2 * time.Second
retryDelay == 2 * UnitsPerSecond

MaxTime == MaxTicks * pollInterval + 4 * UnitsPerSecond

\* ------------------------------------------------------------ input sets
Phones == {"+1", "+2"}
\* MessageStatus values a delivery-status callback may carry
ProviderStatuses == {"delivered", "pending"}
\* scheduled_at of a request, relative to the time of the request
ScheduleOffsets == {-1, 0, 1}
\* what one twilioClient.Api.CreateMessage call may return:
\*   err != nil | err == nil, resp.Sid == nil | resp.Sid -> "" | resp.Sid -> "SM.."
ProviderOutcomes == {"error", "nilSid", "emptySid", "sid"}
CallDurations == 0..MaxCallDur
\* the outcomes and durations tried together with all the HTTP requests: a
\* call that fails or succeeds, and returns within the unit of time
FewOutcomes == {"error", "sid"}
FewDurations == {0}
Ids == 1..MaxId

VARIABLES
    db,          \* the messages table: id -> Message, for the stored ids
    storeUp,     \* the statements on db succeed; otherwise they return an error
    nextId,      \* next AUTOINCREMENT primary key
    now,         \* time.Now()
    resp,        \* the last HTTP response written
    requests,    \* history: the number of HTTP requests received
    upd,         \* updateMessage between db.First and db.Save
    deleted,     \* history: id -> the status and scheduledAt of the record
                 \*   deleteMessage removed, and the time of the removal
    listed,      \* the messages of the last answer of getMessages
    callbacks,   \* history: recipient -> the statuses of the callbacks for it
                 \*   since the last other write to a record of the recipient
    tickerC,     \* messageProcessor: a tick is buffered in ticker.C
    pollNext,    \* messageProcessor: when ticker fires next
    pollPc,      \* position of the messageProcessor goroutine
    messages,    \* sendDueMessages: the due messages read by the query
    idx,         \* sendDueMessages: position in messages (1-based)
    limiterC,    \* sendDueMessages: a tick is buffered in limiter
    limiterNext, \* sendDueMessages: when limiter fires next
    i,           \* sendMessage: loop counter
    wake,        \* sendMessage: when the provider call or the sleep ends
    outcomes,    \* history: provider outcomes of the current/last sendMessage
    dispatched,  \* history: ids handed to sendMessage
    gaveUp,      \* history: ids for which sendMessage returned false
    sendStarts,  \* history: start times of the sendMessage calls of this tick
    skipped      \* history: ids that were due at a tick whose query failed

vars == <<db, storeUp, nextId, now, resp, requests, upd, deleted, callbacks,
          listed,
          tickerC, pollNext, pollPc, messages, idx,
          limiterC, limiterNext, i, wake, outcomes, dispatched, gaveUp,
          sendStarts, skipped>>

storeVars == <<db, nextId>>
httpVars == <<resp, requests, upd, deleted, callbacks, listed>>
pollVars == <<tickerC, pollNext, pollPc, messages, idx, limiterC, limiterNext,
              i, wake, outcomes, dispatched, gaveUp, sendStarts, skipped>>

NoUpdate == [pc |-> "none"]
NoCallbacks == [p \in Phones |-> <<>>]

\* a record of one of the recipients is written by something else than a
\* callback
Forget(cb, recipients) ==
    [p \in Phones |-> IF p \in recipients THEN <<>> ELSE cb[p]]

\* the recipient stored for the id, if a record is stored
StoredRecipient(id) == {db[k].PhoneNumber : k \in DOMAIN db \cap {id}}
NoResp == [op |-> "none", id |-> 0, code |-> 0]

Min(S) == CHOOSE x \in S : \A y \in S : x <= y

\* --------------------------------------------------------------- the store
\* db.Save(&message): UPDATE of all fields by primary key; when no row has the
\* key, INSERT of the record
Save(store, m) ==
    [k \in DOMAIN store \cup {m.ID} |-> IF k = m.ID THEN m ELSE store[k]]

DeleteMutant(store, id) == [k \in {j \in DOMAIN store : j > id} |-> store[k]]
\* db.Delete(&Message{}, id)
Delete(store, id) == [k \in DOMAIN store \ {id} |-> store[k]]

RECURSIVE SeqOfIds(_)
SeqOfIds(S) ==
    IF S = {} THEN <<>> ELSE <<Min(S)>> \o SeqOfIds(S \ {Min(S)})

IsDueMutant(m, t) == m.ScheduledAt <= t
IsDueEdge(m, t) == m.Status = "pending" /\ m.ScheduledAt = t
\* "status = ? AND scheduled_at <= ?", "pending", now
IsDue(m, t) == m.Status = "pending" /\ m.ScheduledAt <= t

\* db.Where(...).Find(&messages): the rows in rowid order
FindDue(store, t) ==
    LET ids == SeqOfIds({k \in DOMAIN store : IsDue(store[k], t)})
    IN  [n \in 1..Len(ids) |-> store[ids[n]]]

\* ------------------------------------------------------------- the requests
\* scheduled_at of a request: an RFC3339 string that parses to a time, or not
ParsedTimes(offsets) ==
    {[valid |-> TRUE, at |-> now + o] : o \in offsets}

\* the phone number and content of a request
Addressed ==
    {[PhoneNumber |-> "+1", Content |-> "a"],
     [PhoneNumber |-> "+2", Content |-> "b"]}

RequestsOf(addressed, times) ==
    {[PhoneNumber |-> a.PhoneNumber, Content |-> a.Content, ScheduledAt |-> t] :
        a \in addressed, t \in times}

\* the well-formed requests
Requests == RequestsOf(Addressed, ParsedTimes(ScheduleOffsets))

\* requests for a time shortly after the request
HttpRequests == RequestsOf(Addressed, ParsedTimes({1}))

\* requests without a phone number, or without a content
Incomplete ==
    RequestsOf({[PhoneNumber |-> "", Content |-> "a"],
                [PhoneNumber |-> "+1", Content |-> ""]}, ParsedTimes({1}))

BindOkMutant(req) == req.PhoneNumber # ""
\* binding:"required" on the three fields, then time.Parse(time.RFC3339, ..)
BindOk(req) == req.PhoneNumber # "" /\ req.Content # ""

Init ==
    /\ db = <<>>
    /\ storeUp = TRUE
    /\ nextId = 1
    /\ now = 0
    /\ resp = NoResp
    /\ requests = 0
    /\ upd = NoUpdate
    /\ deleted = <<>>
    /\ callbacks = NoCallbacks
    /\ listed = <<>>
    /\ tickerC = FALSE
    /\ pollNext = pollInterval
    /\ pollPc = "idle"
    /\ messages = <<>>
    /\ idx = 0
    /\ limiterC = FALSE
    /\ limiterNext = 0
    /\ i = 0
    /\ wake = 0
    /\ outcomes = <<>>
    /\ dispatched = {}
    /\ gaveUp = {}
    /\ sendStarts = <<>>
    /\ skipped = {}

NextKeyMutant(store, next) ==
    IF DOMAIN store = {} THEN 1
    ELSE 1 + CHOOSE k \in DOMAIN store : \A j \in DOMAIN store : j <= k
\* db.Create(&message) with ID 0: the key the table gives the new row, one
\* more than the largest key it ever gave (ID uint `gorm:"primaryKey"`)
NextKey(store, next) == next

\* POST /api/schedule
scheduleMessage(req) ==
    /\ requests' = requests + 1
    /\ IF ~BindOk(req) \/ ~req.ScheduledAt.valid \/ req.ScheduledAt.at < now
       THEN /\ resp' = [op |-> "schedule", id |-> 0, code |-> 400]
            /\ UNCHANGED storeVars
            /\ callbacks' = callbacks
       ELSE IF ~storeUp
       THEN /\ resp' = [op |-> "schedule", id |-> 0, code |-> 500]
            /\ UNCHANGED storeVars
            /\ callbacks' = callbacks
       ELSE /\ db' = Save(db, [ID |-> NextKey(db, nextId),
                               PhoneNumber |-> req.PhoneNumber,
                               Content |-> req.Content,
                               ScheduledAt |-> req.ScheduledAt.at,
                               Status |-> "pending",
                               CreatedAt |-> now,
                               UpdatedAt |-> now])
            /\ nextId' = nextId + 1
            /\ resp' = [op |-> "schedule", id |-> NextKey(db, nextId),
                        code |-> 201]
            /\ callbacks' = Forget(callbacks, {req.PhoneNumber})
    /\ UNCHANGED <<storeUp, now, upd, deleted, listed>>
    /\ UNCHANGED pollVars

EditableMutant(m) == m.Status # "sent"
\* if message.Status != "pending" { 400 }
Editable(m) == m.Status = "pending"

EditedMutant(m, req, t) ==
    [m EXCEPT !.PhoneNumber = req.PhoneNumber,
              !.Content = req.Content,
              !.ScheduledAt = req.ScheduledAt.at]
\* message.PhoneNumber, .Content, .ScheduledAt = the request's;
\* message.UpdatedAt = time.Now()
Edited(m, req, t) ==
    [m EXCEPT !.PhoneNumber = req.PhoneNumber,
              !.Content = req.Content,
              !.ScheduledAt = req.ScheduledAt.at,
              !.UpdatedAt = t]

NotFoundMutant(id) == [op |-> "update", id |-> id, code |-> 200]
\* c.JSON(http.StatusNotFound, ..) of updateMessage
NotFound(id) == [op |-> "update", id |-> id, code |-> 404]

\* PUT /api/messages/:id, up to and including db.First and the status check
updateMessageRead(id, req) ==
    /\ upd = NoUpdate
    /\ requests' = requests + 1
    /\ IF ~BindOk(req) \/ ~req.ScheduledAt.valid
       THEN /\ resp' = [op |-> "update", id |-> id, code |-> 400]
            /\ upd' = upd
       ELSE IF ~storeUp \/ id \notin DOMAIN db
       THEN /\ resp' = NotFound(id)
            /\ upd' = upd
       ELSE IF ~Editable(db[id])
       THEN /\ resp' = [op |-> "update", id |-> id, code |-> 400]
            /\ upd' = upd
       ELSE /\ upd' = [pc |-> "save", message |-> Edited(db[id], req, now)]
            /\ resp' = resp
    /\ UNCHANGED <<storeUp, now, deleted, callbacks, listed>>
    /\ UNCHANGED storeVars
    /\ UNCHANGED pollVars

\* the response of a handler that looks at the result of db.Save
UpdatedChecked(id, saved) ==
    [op |-> "update", id |-> id, code |-> IF saved THEN 200 ELSE 500]

\* db.Save(&message), whose result is not looked at, then
\* c.JSON(http.StatusOK, message)
Updated(id, saved) == [op |-> "update", id |-> id, code |-> 200]

\* PUT /api/messages/:id, db.Save(&message) and the response
updateMessageSave ==
    /\ upd # NoUpdate
    /\ IF storeUp
       THEN /\ db' = Save(db, upd.message)
            /\ callbacks' = Forget(callbacks,
                                   {upd.message.PhoneNumber}
                                       \cup StoredRecipient(upd.message.ID))
       ELSE /\ db' = db
            /\ callbacks' = callbacks
    /\ resp' = Updated(upd.message.ID, storeUp)
    /\ upd' = NoUpdate
    /\ UNCHANGED <<storeUp, nextId, now, requests, deleted, listed>>
    /\ UNCHANGED pollVars

\* DELETE /api/messages/:id
deleteMessage(id) ==
    /\ requests' = requests + 1
    /\ IF ~storeUp
       THEN /\ db' = db
            /\ deleted' = deleted
            /\ resp' = [op |-> "delete", id |-> id, code |-> 500]
       ELSE IF id \in DOMAIN db
       THEN /\ db' = Delete(db, id)
            /\ deleted' = [k \in DOMAIN deleted \cup {id} |->
                              IF k = id
                              THEN [Status |-> db[id].Status,
                                    ScheduledAt |-> db[id].ScheduledAt,
                                    at |-> now]
                              ELSE deleted[k]]
            /\ resp' = [op |-> "delete", id |-> id, code |-> 200]
       ELSE /\ db' = db
            /\ deleted' = deleted
            /\ resp' = [op |-> "delete", id |-> id, code |-> 404]
    /\ UNCHANGED <<storeUp, nextId, now, upd, callbacks, listed>>
    /\ UNCHANGED pollVars

InOrderMutant(a, b) == a.ScheduledAt <= b.ScheduledAt
\* Order("scheduled_at DESC"): a may come before b
InOrder(a, b) == a.ScheduledAt >= b.ScheduledAt

\* db.Order("scheduled_at DESC").Find(&messages): every row once; the order
\* of rows with equal scheduled_at is not determined by the statement
Listings(store) ==
    LET n == Cardinality(DOMAIN store)
        orders == {s \in [1..n -> DOMAIN store] :
                      /\ \A a, b \in 1..n : a # b => s[a] # s[b]
                      /\ \A a \in 1..(n - 1) :
                             InOrder(store[s[a]], store[s[a + 1]])}
    IN  {[j \in 1..n |-> store[s[j]]] : s \in orders}

\* GET /api/messages
getMessages ==
    /\ requests' = requests + 1
    /\ IF ~storeUp
       THEN /\ resp' = [op |-> "list", id |-> 0, code |-> 500]
            /\ listed' = <<>>
       ELSE /\ resp' = [op |-> "list", id |-> 0, code |-> 200]
            /\ listed' \in Listings(db)
    /\ UNCHANGED <<storeVars, storeUp, now, upd, deleted, callbacks>>
    /\ UNCHANGED pollVars

MatchesMutant(m, to) == TRUE
\* Where("phone_number = ?", status.To)
Matches(m, to) == m.PhoneNumber = to

UpdatesRepeated(m, status, t) ==
    [m EXCEPT !.Status = IF m.Status = status THEN "pending" ELSE status,
              !.UpdatedAt = t]
UpdatesOnce(m, status, t) ==
    IF m.Status = "delivered" THEN m
    ELSE [m EXCEPT !.Status = status, !.UpdatedAt = t]
\* Updates(map[string]interface{}{"status": .., "updated_at": time.Now()})
Updates(m, status, t) == [m EXCEPT !.Status = status, !.UpdatedAt = t]

StatusUpdatedMutant(rows) ==
    [op |-> "status", id |-> 0, code |-> IF rows = {} THEN 404 ELSE 200]
\* if result.Error != nil { 500 }; c.Status(http.StatusOK), whatever the rows
\* the statement changed
StatusUpdated(rows) == [op |-> "status", id |-> 0, code |-> 200]

\* POST /api/message-status
handleMessageStatus(to, status) ==
    /\ requests' = requests + 1
    /\ IF ~storeUp
       THEN /\ db' = db
            /\ resp' = [op |-> "status", id |-> 0, code |-> 500]
            /\ callbacks' = callbacks
       ELSE /\ db' = [k \in DOMAIN db |->
                       IF Matches(db[k], to)
                       THEN Updates(db[k], status, now)
                       ELSE db[k]]
            /\ resp' = StatusUpdated({k \in DOMAIN db : Matches(db[k], to)})
            /\ callbacks' = [callbacks EXCEPT ![to] = Append(@, status)]
    /\ UNCHANGED <<storeUp, nextId, now, upd, deleted, listed>>
    /\ UNCHANGED pollVars

\* ------------------------------------------------------------ the poll loop
QueriedMutant(ok, store, t) == FindDue(store, t)
\* result := db.Where(..).Find(&messages); if result.Error != nil { return }
Queried(ok, store, t) == IF ok THEN FindDue(store, t) ELSE <<>>

OnQueryErrorMutant == "exited"
\* log.Printf("Error fetching due messages: ..") and return: the goroutine is
\* back at `for range ticker.C`
OnQueryError == "idle"

\* for range ticker.C { sendDueMessages() }: the query and time.Tick
sendDueMessages ==
    /\ pollPc = "idle"
    /\ tickerC
    /\ tickerC' = FALSE
    /\ messages' = Queried(storeUp, db, now)
    /\ skipped' = IF storeUp THEN skipped
                  ELSE skipped \cup {k \in DOMAIN db : IsDue(db[k], now)}
    /\ sendStarts' = <<>>
    /\ IF messages' = <<>>
       THEN /\ pollPc' = IF storeUp THEN "idle" ELSE OnQueryError
            /\ idx' = 0
            /\ limiterNext' = 0
       ELSE /\ pollPc' = "limiter"
            /\ idx' = 1
            /\ limiterNext' = now + minInterval
    /\ limiterC' = FALSE
    /\ UNCHANGED <<pollNext, i, wake, outcomes, dispatched, gaveUp>>
    /\ UNCHANGED <<storeUp, now>>
    /\ UNCHANGED storeVars
    /\ UNCHANGED httpVars

\* <-limiter, then sendMessage(message) up to its first call of
\* twilioClient.Api.CreateMessage(params), which returns after d
recvLimiter(d) ==
    /\ pollPc = "limiter"
    /\ limiterC
    /\ limiterC' = FALSE
    /\ pollPc' = "call"
    /\ i' = 0
    /\ wake' = now + d
    /\ outcomes' = <<>>
    /\ dispatched' = dispatched \cup {messages[idx].ID}
    /\ sendStarts' = Append(sendStarts, now)
    /\ UNCHANGED <<tickerC, pollNext, messages, idx, limiterNext, gaveUp,
                   skipped>>
    /\ UNCHANGED <<storeUp, now>>
    /\ UNCHANGED storeVars
    /\ UNCHANGED httpVars

\* if err == nil && resp.Sid != nil
AttemptSucceeded(o) == o \in {"emptySid", "sid"}

StatusOfMutant(success) == IF success THEN "failed" ELSE "sent"
\* if success { "sent" } else { "failed" }
StatusOf(success) == IF success THEN "sent" ELSE "failed"

ResultMutant(m, success, t) == [m EXCEPT !.UpdatedAt = t]
\* message.Status = "sent" or "failed"; message.UpdatedAt = time.Now()
Result(m, success, t) ==
    [m EXCEPT !.Status = StatusOf(success), !.UpdatedAt = t]

MoreToSendMutant(success, n, len) == success /\ n < len
\* for _, message := range messages: the loop goes on to the next message,
\* whatever sendMessage returned for the n-th
MoreToSend(success, n, len) == n < len

\* the end of one iteration of the loop of sendDueMessages:
\* message.Status, message.UpdatedAt, db.Save(&message), whose result is not
\* looked at
writeBack(success) ==
    /\ IF storeUp
       THEN /\ db' = Save(db, Result(messages[idx], success, now))
            /\ callbacks' = Forget(callbacks,
                                   {messages[idx].PhoneNumber}
                                       \cup StoredRecipient(messages[idx].ID))
       ELSE /\ db' = db
            /\ callbacks' = callbacks
    /\ gaveUp' = IF success THEN gaveUp ELSE gaveUp \cup {messages[idx].ID}
    /\ IF MoreToSend(success, idx, Len(messages))
       THEN /\ idx' = idx + 1
            /\ pollPc' = "limiter"
            /\ UNCHANGED <<messages, limiterC, limiterNext>>
       ELSE /\ idx' = 0
            /\ pollPc' = "idle"
            /\ messages' = <<>>
            /\ limiterC' = FALSE
            /\ limiterNext' = 0
    /\ UNCHANGED <<i, wake>>

SleepForMutant(k) == retryDelay * (k + 1)
\* time.Sleep(retryDelay) after the failed attempt with loop counter k
SleepFor(k) == retryDelay

\* CreateMessage returns o: sendMessage returns and the result is written
\* back, or sendMessage sleeps before the next attempt
createMessageReturn(o) ==
    /\ pollPc = "call"
    /\ wake <= now
    /\ outcomes' = Append(outcomes, o)
    /\ IF AttemptSucceeded(o)
       THEN writeBack(TRUE)
       ELSE IF i < maxRetries - 1
       THEN /\ pollPc' = "sleep"
            /\ wake' = now + SleepFor(i)
            /\ UNCHANGED <<db, gaveUp, idx, messages, limiterC, limiterNext, i,
                           callbacks>>
       ELSE writeBack(FALSE)
    /\ UNCHANGED <<tickerC, pollNext, dispatched, sendStarts, skipped>>
    /\ UNCHANGED <<storeUp, nextId, now>>
    /\ UNCHANGED <<resp, requests, upd, deleted, listed>>

\* time.Sleep(retryDelay) is over; i++, and the next call of CreateMessage,
\* which returns after d
retrySleepEnd(d) ==
    /\ pollPc = "sleep"
    /\ wake <= now
    /\ i' = i + 1
    /\ pollPc' = "call"
    /\ wake' = now + d
    /\ UNCHANGED <<tickerC, pollNext, messages, idx, limiterC, limiterNext,
                   outcomes, dispatched, gaveUp, sendStarts, skipped>>
    /\ UNCHANGED <<storeUp, now>>
    /\ UNCHANGED storeVars
    /\ UNCHANGED httpVars

\* ------------------------------------------------------------------- time
\* the poll goroutine can take a step without waiting
PollCanStep ==
    \/ pollPc = "idle" /\ tickerC
    \/ pollPc = "limiter" /\ limiterC
    \/ pollPc \in {"call", "sleep"} /\ wake <= now

\* the timers the poll goroutine is blocked on
Deadlines ==
    (IF pollPc = "idle" THEN {pollNext} ELSE {})
        \cup (IF pollPc = "limiter" THEN {limiterNext} ELSE {})
        \cup (IF pollPc \in {"call", "sleep"} THEN {wake} ELSE {})

\* the first expiry after time t of a ticker of the given period that
\* expires next at time next
NextExpiry(next, period, t) ==
    IF next > t THEN next ELSE next + period * ((t - next) \div period + 1)

\* time passes until the goroutine of the poll loop wakes up; a ticker that
\* expired meanwhile has put one tick in its channel (of capacity 1) and
\* dropped the others
advanceTime ==
    /\ ~PollCanStep
    /\ Deadlines # {}
    /\ Min(Deadlines) <= MaxTime
    /\ now' = Min(Deadlines)
    /\ tickerC' = (tickerC \/ pollNext <= now')
    /\ pollNext' = NextExpiry(pollNext, pollInterval, now')
    /\ IF pollPc # "idle"
       THEN /\ limiterC' = (limiterC \/ limiterNext <= now')
            /\ limiterNext' = NextExpiry(limiterNext, minInterval, now')
       ELSE UNCHANGED <<limiterC, limiterNext>>
    /\ UNCHANGED <<pollPc, messages, idx, i, wake, outcomes, dispatched,
                   gaveUp, sendStarts, skipped>>
    /\ UNCHANGED <<storeVars, storeUp>>
    /\ UNCHANGED httpVars

\* ------------------------------------------------------- the store's state
\* the database starts to return errors (locked, disk full, file removed)
storeFails ==
    /\ storeUp
    /\ storeUp' = FALSE
    /\ UNCHANGED <<storeVars, now>>
    /\ UNCHANGED httpVars
    /\ UNCHANGED pollVars

\* the database is available again
storeRecovers ==
    /\ ~storeUp
    /\ storeUp' = TRUE
    /\ UNCHANGED <<storeVars, now>>
    /\ UNCHANGED httpVars
    /\ UNCHANGED pollVars

\* the service takes another HTTP request
Accepting == requests < MaxRequests

Next ==
    \/ Accepting /\ \E req \in Requests : scheduleMessage(req)
    \/ Accepting /\ \E id \in Ids, req \in HttpRequests : updateMessageRead(id, req)
    \/ updateMessageSave
    \/ Accepting /\ \E id \in Ids : deleteMessage(id)
    \/ Accepting /\ \E to \in Phones, status \in ProviderStatuses :
                       handleMessageStatus(to, status)
    \/ sendDueMessages
    \/ \E d \in FewDurations : recvLimiter(d)
    \/ \E o \in FewOutcomes : createMessageReturn(o)
    \/ \E d \in FewDurations : retrySleepEnd(d)
    \/ advanceTime

Spec == Init /\ [][Next]_vars

\* a request that schedules a message for right now
RateRequests ==
    RequestsOf({[PhoneNumber |-> "+1", Content |-> "a"]}, ParsedTimes({0}))

\* The poll loop on up to MaxDue messages scheduled at start-up, all due at
\* the first tick, with every duration of the provider calls
NextRate ==
    \/ now = 0 /\ nextId <= MaxDue /\ \E req \in RateRequests : scheduleMessage(req)
    \/ sendDueMessages
    \/ \E d \in CallDurations : recvLimiter(d)
    \/ \E o \in FewOutcomes : createMessageReturn(o)
    \/ \E d \in CallDurations : retrySleepEnd(d)
    \/ advanceTime

SpecRate == Init /\ [][NextRate]_vars

\* The poll loop on one message, with every outcome and every duration of
\* the provider calls
NextSend ==
    \/ nextId = 1 /\ \E req \in RateRequests : scheduleMessage(req)
    \/ sendDueMessages
    \/ \E d \in CallDurations : recvLimiter(d)
    \/ \E o \in ProviderOutcomes : createMessageReturn(o)
    \/ \E d \in CallDurations : retrySleepEnd(d)
    \/ advanceTime

SpecSend == Init /\ [][NextSend]_vars

\* a provider call that returns a message reference
GoodOutcomes == {"sid"}

\* the service takes another request that is not the creation of a message,
\* between the passes of the poll loop
Editing == pollPc = "idle" /\ requests < (nextId - 1) + MaxRequests

\* time passes until the first pass of the poll loop is over
FirstPass == now = 0 \/ pollPc # "idle"

\* The handlers on up to MaxId messages scheduled at start-up: MaxRequests
\* further requests arrive before and after the first pass of the poll loop,
\* whose sends succeed at the first attempt; an update that was read before
\* the pass may be saved during and after it
NextHttp ==
    \/ now = 0 /\ nextId <= MaxId /\ \E req \in HttpRequests : scheduleMessage(req)
    \/ Editing /\ \E id \in Ids, req \in HttpRequests : updateMessageRead(id, req)
    \/ updateMessageSave
    \/ Editing /\ \E id \in Ids : deleteMessage(id)
    \/ Editing /\ \E to \in Phones, status \in ProviderStatuses :
                     handleMessageStatus(to, status)
    \/ sendDueMessages
    \/ \E d \in FewDurations : recvLimiter(d)
    \/ \E o \in GoodOutcomes : createMessageReturn(o)
    \/ FirstPass /\ advanceTime

SpecHttp == Init /\ [][NextHttp]_vars

\* the requests for a time shortly before or after the request, and the
\* requests that lack a field
StoreRequests == RequestsOf(Addressed, ParsedTimes({-1, 1})) \cup Incomplete

\* MessageStatus of a callback: a status of the provider, or none
CallbackStatuses == ProviderStatuses \cup {""}

\* The handlers and the first pass of the poll loop with a store that fails
\* and recovers at any time: MaxRequests requests, well-formed or not, for
\* a time before or after the request, callbacks with and without a status
NextStore ==
    \/ Accepting /\ \E req \in StoreRequests : scheduleMessage(req)
    \/ Accepting /\ \E id \in Ids, req \in StoreRequests :
                       updateMessageRead(id, req)
    \/ updateMessageSave
    \/ Accepting /\ \E id \in Ids : deleteMessage(id)
    \/ Accepting /\ \E to \in Phones, status \in CallbackStatuses :
                       handleMessageStatus(to, status)
    \/ storeFails
    \/ storeRecovers
    \/ sendDueMessages
    \/ \E d \in FewDurations : recvLimiter(d)
    \/ \E o \in GoodOutcomes : createMessageReturn(o)
    \/ FirstPass /\ advanceTime

SpecStore == Init /\ [][NextStore]_vars

\* the service takes another request, which may be refused
Listing == requests < (nextId - 1) + MaxRequests

\* The handlers that create, remove and list messages, on up to MaxId
\* messages scheduled at start-up for that time or a later one
NextList ==
    \/ Listing /\ nextId <= MaxId /\ \E req \in Requests : scheduleMessage(req)
    \/ Listing /\ \E id \in Ids : deleteMessage(id)
    \/ Listing /\ getMessages

SpecList == Init /\ [][NextList]_vars

\* ------------------------------------------------------ the unbounded run
\* a time after the clock's origin is moved to now; a time that is not
\* after now becomes the new origin
Since(t) == IF t > now THEN t - now ELSE 0

\* the origin of the clock is moved to now, between two passes of the poll
\* loop: every time is kept as its distance from now
rebase ==
    /\ pollPc = "idle"
    /\ upd = NoUpdate
    /\ now > 0
    /\ now' = 0
    /\ pollNext' = Since(pollNext)
    /\ wake' = Since(wake)
    /\ sendStarts' = [n \in DOMAIN sendStarts |-> Since(sendStarts[n])]
    /\ db' = [k \in DOMAIN db |->
                [db[k] EXCEPT !.ScheduledAt = Since(@),
                              !.CreatedAt = Since(@),
                              !.UpdatedAt = Since(@)]]
    /\ deleted' = [k \in DOMAIN deleted |->
                     [deleted[k] EXCEPT !.ScheduledAt = Since(@),
                                        !.at = Since(@)]]
    /\ listed' = [n \in DOMAIN listed |->
                    [listed[n] EXCEPT !.ScheduledAt = Since(@),
                                      !.CreatedAt = Since(@),
                                      !.UpdatedAt = Since(@)]]
    /\ UNCHANGED <<storeUp, nextId, resp, requests, upd, callbacks>>
    /\ UNCHANGED <<tickerC, pollPc, messages, idx, limiterC, limiterNext, i,
                   outcomes, dispatched, gaveUp, skipped>>

\* between two passes the clock's origin is moved before time passes
Rebased == pollPc = "idle" => now = 0

\* The poll loop without an end, on up to MaxLive messages scheduled at
\* start-up and due at the first tick, with a store that fails and recovers
\* at any time and provider calls that fail or succeed
NextLive ==
    \/ now = 0 /\ storeUp /\ nextId <= MaxLive
           /\ \E req \in RateRequests : scheduleMessage(req)
    \/ storeFails
    \/ storeRecovers
    \/ sendDueMessages
    \/ \E d \in FewDurations : recvLimiter(d)
    \/ \E o \in FewOutcomes : createMessageReturn(o)
    \/ \E d \in FewDurations : retrySleepEnd(d)
    \/ Rebased /\ advanceTime
    \/ rebase

\* the goroutine of the poll loop takes its next step, every provider call
\* returns, and time passes
Fairness ==
    /\ WF_vars(sendDueMessages)
    /\ WF_vars(\E d \in FewDurations : recvLimiter(d))
    /\ WF_vars(\E o \in FewOutcomes : createMessageReturn(o))
    /\ WF_vars(\E d \in FewDurations : retrySleepEnd(d))
    /\ WF_vars(Rebased /\ advanceTime)
    /\ WF_vars(rebase)

SpecLive == Init /\ [][NextLive]_vars /\ Fairness

\* a provider call returns at once, or when a poll interval has passed
SlowDurations == {0, pollInterval}

\* The poll loop on up to MaxId messages scheduled at start-up, with provider
\* calls that make a pass last longer than the poll interval
NextSlow ==
    \/ now = 0 /\ nextId <= MaxId /\ \E req \in RateRequests : scheduleMessage(req)
    \/ sendDueMessages
    \/ \E d \in SlowDurations : recvLimiter(d)
    \/ \E o \in FewOutcomes : createMessageReturn(o)
    \/ \E d \in SlowDurations : retrySleepEnd(d)
    \/ advanceTime

SpecSlow == Init /\ [][NextSlow]_vars

\* =================================================================== claims
\* a step in which sendDueMessages writes the result of a send back
WriteBackStep == pollPc = "call" /\ pollPc' \in {"limiter", "idle"}

\* a step in which a poll tick calls sendMessage
SendStep == pollPc = "limiter" /\ pollPc' = "call"

\* a step in which a poll tick runs its due-set query
QueryStep == tickerC /\ ~tickerC'

\* C1: a stored message that was never handed to sendMessage has status
\* pending.
C1_PendingBeforeDispatch ==
    \A k \in DOMAIN db : k \notin dispatched => db[k].Status = "pending"

\* C2: the due set read by a poll tick at time now is exactly the stored
\* messages with status pending and scheduledAt <= now, each of them once and
\* as it is stored.
C2_DueSetExact ==
    [][QueryStep =>
         LET due == {k \in DOMAIN db :
                        db[k].Status = "pending" /\ db[k].ScheduledAt <= now}
         IN  /\ {messages'[n].ID : n \in DOMAIN messages'} = due
             /\ Len(messages') = Cardinality(due)
             /\ \A n \in DOMAIN messages' : messages'[n] = db[messages'[n].ID]
             /\ \A n \in DOMAIN messages' :
                    messages'[n].Status \notin {"sent", "failed", "delivered"}
      ]_vars

\* C2 witness: a tick has just read a due set that holds a due pending message
\* and leaves out a stored message that is past its time but not pending.
C2_Witness ==
    /\ pollPc = "limiter"
    /\ idx = 1
    /\ messages[1].ID \in DOMAIN db
    /\ db[messages[1].ID] = messages[1]
    /\ \E k \in DOMAIN db :
          /\ \A n \in DOMAIN messages : messages[n].ID # k
          /\ db[k].Status # "pending"
          /\ db[k].ScheduledAt <= messages[1].ScheduledAt

\* C3: whenever sendDueMessages writes a message back as sent or failed, the
\* status stored for that id just before the write is pending.
C3_DispatchOnlyFromPending ==
    [][(WriteBackStep /\ messages[idx].ID \in DOMAIN db)
          => db[messages[idx].ID].Status = "pending"
      ]_vars

\* C4: the stored recipient, body and scheduledAt of a record change only in a
\* step before which the stored status of that record is pending.
C4_MutatedOnlyWhilePending ==
    [][\A k \in DOMAIN db \cap DOMAIN db' :
          (\/ db'[k].PhoneNumber # db[k].PhoneNumber
           \/ db'[k].Content # db[k].Content
           \/ db'[k].ScheduledAt # db[k].ScheduledAt)
             => db[k].Status = "pending"
      ]_vars

\* C5: updateMessage on an existing id whose stored status is not pending
\* answers 400 and leaves every stored record as it was.
C5_EditNonPendingRejected ==
    [][LET requested == HttpRequests
       IN  \A id \in Ids \cap DOMAIN db :
              db[id].Status # "pending" =>
                 \A req \in requested :
                    updateMessageRead(id, req) =>
                       /\ resp' = [op |-> "update", id |-> id, code |-> 400]
                       /\ db' = db
                       /\ upd' = NoUpdate
      ]_vars

\* C5 witness: an update of a stored message that is sent, failed or
\* delivered was answered 400.
C5_Witness ==
    /\ resp.op = "update"
    /\ resp.code = 400
    /\ resp.id \in DOMAIN db
    /\ db[resp.id].Status \in {"sent", "failed", "delivered"}

\* C6: once sendMessage has returned false for a message, no later poll tick
\* calls sendMessage for that message id.
C6_NoResendAfterGiveUp ==
    [][SendStep => messages[idx].ID \notin gaveUp]_vars

FailedAttempts == {"error", "nilSid"}

\* C7: sendMessage makes at most 3 attempts and none after an attempt that
\* returned a message reference; two failed attempts and then a success
\* give status sent, three failed attempts give status failed, and status
\* failed is written only after exactly 3 attempts.
C7_RetryThreeAttempts ==
    [][/\ Len(outcomes') <= 3
       /\ \A n \in 1..(Len(outcomes') - 1) : outcomes'[n] # "sid"
       /\ WriteBackStep =>
            LET st == db'[messages[idx].ID].Status
                os == outcomes'
            IN  /\ os[Len(os)] = "sid" => st = "sent"
                /\ (/\ Len(os) = 3
                    /\ os[1] \in FailedAttempts
                    /\ os[2] \in FailedAttempts
                    /\ os[3] = "sid") => st = "sent"
                /\ (/\ Len(os) = 3
                    /\ \A n \in 1..3 : os[n] \in FailedAttempts) => st = "failed"
                /\ st = "failed" =>
                     /\ Len(os) = 3
                     /\ \A n \in 1..3 : os[n] \in FailedAttempts
      ]_vars

\* C7 witness: a send that failed twice and then succeeded has been written
\* back as sent.
C7_Witness ==
    /\ pollPc \in {"idle", "limiter"}
    /\ outcomes = <<"error", "error", "sid">>
    /\ \E k \in dispatched \cap DOMAIN db : db[k].Status = "sent"

\* C8: an attempt that returned no error but a missing or an empty message
\* reference does not end sendMessage with success.
C8_EmptyReferenceIsFailure ==
    [][(/\ WriteBackStep
        /\ outcomes'[Len(outcomes')] \in {"nilSid", "emptySid"})
           => db'[messages[idx].ID].Status # "sent"
      ]_vars

\* C9: two consecutive sendMessage calls of one tick start at least 1 second
\* apart.
C9_RateGatePairwise ==
    \A k \in 1..(Len(sendStarts) - 1) :
        sendStarts[k + 1] - sendStarts[k] >= 1 * UnitsPerSecond

\* C10: the k-th sendMessage call of a tick starts at least k-1 seconds after
\* the first one.
C10_RateGateAggregate ==
    \A k \in 1..Len(sendStarts) :
        sendStarts[k] - sendStarts[1] >= (k - 1) * 1 * UnitsPerSecond

\* C10 witness: the third send of a tick has started, less than a second
\* after the second one.
C10_Witness ==
    /\ Len(sendStarts) = 3
    /\ sendStarts[3] - sendStarts[2] < 1 * UnitsPerSecond

\* C11: once deleteMessage has succeeded for an id, no record with that id
\* is stored in any later state, also when a poll tick that holds the message
\* in its snapshot writes its result back afterwards.
C11_DeleteIsHardRemoval ==
    \A k \in DOMAIN deleted : k \notin DOMAIN db

\* the ids whose record was deleted while it was pending and not yet due
DeletedMidFlight ==
    {k \in DOMAIN deleted : /\ deleted[k].Status = "pending"
                            /\ deleted[k].ScheduledAt > deleted[k].at}

\* C12: a message that was deleted while it was pending and not yet due is
\* not found afterwards and is in the due set of no later poll tick, so that
\* it is never passed to sendMessage.
C12_DeletedMidFlightStaysGone ==
    \A k \in DeletedMidFlight :
        /\ k \notin DOMAIN db
        /\ \A n \in DOMAIN messages : messages[n].ID # k

\* C13: deleteMessage answers 404 and leaves the store unchanged when no
\* record has the id; otherwise it removes exactly the record with that id,
\* whatever its status, and leaves every other record unchanged.
C13_DeleteContract ==
    [][\A id \in Ids :
          deleteMessage(id) =>
             IF id \notin DOMAIN db
             THEN /\ resp' = [op |-> "delete", id |-> id, code |-> 404]
                  /\ db' = db
             ELSE /\ resp' = [op |-> "delete", id |-> id, code |-> 200]
                  /\ DOMAIN db' = DOMAIN db \ {id}
                  /\ \A k \in DOMAIN db' : db'[k] = db[k]
      ]_vars

\* C13 witness: deleteMessage has just removed a record that was not pending,
\* and another record is stored.
C13_Witness ==
    /\ resp.op = "delete"
    /\ resp.code = 200
    /\ resp.id \notin DOMAIN db
    /\ deleted[resp.id].Status # "pending"
    /\ deleted[resp.id].at = now
    /\ db # <<>>

\* C14: schedule answers 400 and stores nothing when scheduled_at does not
\* parse or is not after the time of the request, the time of the request
\* itself included; it creates a record only when scheduled_at is after the
\* time of the request.
C14_ScheduleStrictlyFuture ==
    [][\A req \in Requests :
          scheduleMessage(req) =>
             /\ (~req.ScheduledAt.valid \/ req.ScheduledAt.at <= now) =>
                   /\ resp'.code = 400
                   /\ db' = db
             /\ db' # db => req.ScheduledAt.at > now
      ]_vars

\* C15: when a poll tick writes the result of a send back, the stored
\* recipient, body and scheduledAt of that record are the same after the
\* write as before it, also when an update of the message was accepted
\* after the tick read its due set.
C15_WriteBackKeepsFields ==
    [][(WriteBackStep /\ messages[idx].ID \in DOMAIN db) =>
          LET k == messages[idx].ID
          IN  /\ db'[k].PhoneNumber = db[k].PhoneNumber
              /\ db'[k].Content = db[k].Content
              /\ db'[k].ScheduledAt = db[k].ScheduledAt
      ]_vars

\* C16: updateMessage on a stored message whose status is pending answers
\* 200, replaces recipient, body and scheduledAt by the values of the request
\* and sets updatedAt to the time of the request; the id, status and createdAt
\* of the record and every other record stay as they are.
C16_EditPendingReplacesFields ==
    [][/\ LET requested == HttpRequests
          IN  \A id \in Ids \cap DOMAIN db :
                 db[id].Status = "pending" =>
                    \A req \in requested :
                       updateMessageRead(id, req) =>
                          /\ db' = db
                          /\ upd'.pc = "save"
                          /\ upd'.message.ID = id
                          /\ upd'.message.PhoneNumber = req.PhoneNumber
                          /\ upd'.message.Content = req.Content
                          /\ upd'.message.ScheduledAt = req.ScheduledAt.at
                          /\ upd'.message.UpdatedAt = now
       /\ (/\ updateMessageSave
           /\ upd.message.ID \in DOMAIN db
           /\ db[upd.message.ID].Status = "pending") =>
             LET id == upd.message.ID
             IN  /\ resp' = [op |-> "update", id |-> id, code |-> 200]
                 /\ DOMAIN db' = DOMAIN db
                 /\ db'[id].PhoneNumber = upd.message.PhoneNumber
                 /\ db'[id].Content = upd.message.Content
                 /\ db'[id].ScheduledAt = upd.message.ScheduledAt
                 /\ db'[id].UpdatedAt = upd.message.UpdatedAt
                 /\ db'[id].ID = db[id].ID
                 /\ db'[id].Status = db[id].Status
                 /\ db'[id].CreatedAt = db[id].CreatedAt
                 /\ \A k \in DOMAIN db \ {id} : db'[k] = db[k]
      ]_vars

\* C16 witness: an update of a pending message, made after its creation, has
\* been answered 200; the record has a new scheduledAt and updatedAt, and
\* another record is stored.
C16_Witness ==
    /\ resp = [op |-> "update", id |-> resp.id, code |-> 200]
    /\ resp.id \in DOMAIN db
    /\ db[resp.id].Status = "pending"
    /\ db[resp.id].UpdatedAt > db[resp.id].CreatedAt
    /\ db[resp.id].ScheduledAt = db[resp.id].UpdatedAt + 1
    /\ DOMAIN db # {resp.id}

\* C17: updateMessage on an id that no stored message has, an id deleted
\* earlier included, answers 404, changes no record and creates none.
C17_EditAbsentNotFound ==
    [][LET requested == HttpRequests
       IN  \A id \in Ids \ DOMAIN db :
              \A req \in requested :
                 updateMessageRead(id, req) =>
                    /\ resp' = [op |-> "update", id |-> id, code |-> 404]
                    /\ db' = db
                    /\ upd' = NoUpdate
      ]_vars

\* C17 witness: an update of a message that was deleted earlier has been
\* answered 404.
C17_Witness ==
    /\ resp.op = "update"
    /\ resp.code = 404
    /\ resp.id \in DOMAIN deleted
    /\ resp.id \notin DOMAIN db

\* C18: a delivery-status callback for recipient r with status s sets the
\* status to s and updatedAt to the time of the callback on every stored
\* record whose recipient is r, and changes nothing else: records with
\* another recipient, and the other fields of the matching records, stay.
C18_CallbackFrame ==
    [][\A to \in Phones, status \in ProviderStatuses :
          handleMessageStatus(to, status) =>
             /\ DOMAIN db' = DOMAIN db
             /\ \A k \in DOMAIN db :
                   IF db[k].PhoneNumber = to
                   THEN /\ db'[k].Status = status
                        /\ db'[k].UpdatedAt = now
                        /\ db'[k].ID = db[k].ID
                        /\ db'[k].PhoneNumber = db[k].PhoneNumber
                        /\ db'[k].Content = db[k].Content
                        /\ db'[k].ScheduledAt = db[k].ScheduledAt
                        /\ db'[k].CreatedAt = db[k].CreatedAt
                   ELSE db'[k] = db[k]
      ]_vars

\* C18 witness: a callback, received after the messages were created, has set
\* one record to delivered and left a record of another recipient alone.
C18_Witness ==
    /\ resp.op = "status"
    /\ \E k, j \in DOMAIN db :
          /\ db[k].PhoneNumber # db[j].PhoneNumber
          /\ db[k].Status = "delivered"
          /\ db[k].UpdatedAt = now
          /\ db[k].UpdatedAt > db[k].CreatedAt
          /\ db[j].Status # "delivered"
          /\ db[j].UpdatedAt < now

\* C19: a delivery-status callback that repeats the previous callback for
\* its recipient, with no other write to the records of that recipient in
\* between, leaves the status of every stored record as the first one left
\* it.
C19_CallbackIdempotent ==
    [][\A to \in Phones, status \in ProviderStatuses :
          (/\ handleMessageStatus(to, status)
           /\ callbacks[to] # <<>>
           /\ callbacks[to][Len(callbacks[to])] = status) =>
             /\ DOMAIN db' = DOMAIN db
             /\ \A k \in DOMAIN db : db'[k].Status = db[k].Status
      ]_vars

\* C19 witness: the callback delivered has been applied twice in a row to a
\* stored record.
C19_Witness ==
    \E r \in Phones :
        /\ callbacks[r] = <<"delivered", "delivered">>
        /\ \E k \in DOMAIN db :
              db[k].PhoneNumber = r /\ db[k].Status = "delivered"

\* C20: after a sequence of delivery-status callbacks for a recipient with no
\* other write to the records of that recipient in between, every stored
\* record of the recipient has the status of the last callback.
C20_CallbackLastWriteWins ==
    \A r \in Phones :
        callbacks[r] # <<>> =>
           \A k \in DOMAIN db :
              db[k].PhoneNumber = r =>
                 db[k].Status = callbacks[r][Len(callbacks[r])]

\* C20 witness: a callback with the older status pending was received after
\* the callback delivered, and a stored record of the recipient is pending.
C20_Witness ==
    \E r \in Phones :
        /\ callbacks[r] = <<"delivered", "pending">>
        /\ \E k \in DOMAIN db :
              db[k].PhoneNumber = r /\ db[k].Status = "pending"

\* C21: a callback whose recipient matches no stored record is answered with
\* success and leaves the store as it was
C21_CallbackNoMatchSucceeds ==
    [][\A to \in Phones, status \in ProviderStatuses :
          /\ handleMessageStatus(to, status)
          /\ storeUp
          /\ \A k \in DOMAIN db : ~Matches(db[k], to)
          => resp' = [op |-> "status", id |-> 0, code |-> 200] /\ db' = db]_vars

\* the last request was a callback for a recipient of which nothing was ever
\* stored, while other records are stored
C21_Witness ==
    /\ resp = [op |-> "status", id |-> 0, code |-> 200]
    /\ db # <<>>
    /\ deleted = <<>>
    /\ \E p \in Phones :
          /\ callbacks[p] # <<>>
          /\ \A k \in DOMAIN db : db[k].PhoneNumber # p

\* C22: a message scheduled for a later time is stored as pending; when a
\* pass of the poll loop has sent it successfully and the stored record is
\* still the one the pass read, the write-back leaves it sent with a later
\* updatedAt and with its other fields as they were
C22_ScenarioA ==
    [][LET requested == HttpRequests
       IN  /\ \A req \in requested :
                 scheduleMessage(req) /\ resp'.code = 201
                 => /\ db'[nextId].Status = "pending"
                    /\ db'[nextId].ScheduledAt > now
           /\ /\ WriteBackStep
              /\ AttemptSucceeded(outcomes'[Len(outcomes')])
              /\ messages[idx].ID \in DOMAIN db
              /\ db[messages[idx].ID] = messages[idx]
              => /\ now >= messages[idx].ScheduledAt
                 /\ now > messages[idx].UpdatedAt
                 /\ db' = [db EXCEPT ![messages[idx].ID] =
                              [@ EXCEPT !.Status = "sent",
                                        !.UpdatedAt = now]]]_vars

\* only creations were requested, and a message created for a later time was
\* sent by a pass of the poll loop
C22_Witness ==
    /\ requests = nextId - 1
    /\ pollPc = "idle"
    /\ \E k \in DOMAIN db \cap dispatched :
          /\ db[k].Status = "sent"
          /\ db[k].ScheduledAt > db[k].CreatedAt
          /\ db[k].UpdatedAt > db[k].ScheduledAt

\* the messages handed to sendMessage whose result is not stored yet
InFlight == {k \in dispatched \cap DOMAIN db : db[k].Status = "pending"}

\* C23: the poll loop is one sequence of steps: a tick runs its query only
\* when no pass is in progress and every earlier send is written back, a
\* send starts only when every earlier send is written back, and at most one
\* send is in progress
C23_SequentialPasses ==
    [][/\ QueryStep => pollPc = "idle" /\ messages = <<>> /\ InFlight = {}
       /\ SendStep => InFlight = {}
       /\ Cardinality(InFlight') <= 1]_vars

\* a pass that sent two messages has ended a poll interval or more after its
\* first send, and the tick that expired meanwhile waits in the channel
C23_Witness ==
    /\ pollPc = "idle"
    /\ tickerC
    /\ Len(sendStarts) >= 2
    /\ now - sendStarts[1] >= pollInterval
    /\ \A k \in dispatched : db[k].Status # "pending"

\* C24: a tick whose query fails sends nothing, writes nothing and runs no
\* second query: the loop waits for the next tick, the store is as it was,
\* and a message that was due at the failed query and is still due is in the
\* due set of a later tick whose query succeeds
C24_FailedQuerySkipsTick ==
    [][/\ sendDueMessages /\ ~storeUp
          => /\ db' = db
             /\ pollPc' = "idle"
             /\ messages' = <<>>
             /\ dispatched' = dispatched
             /\ ~tickerC'
             /\ pollNext' > now
       /\ sendDueMessages /\ storeUp
          => \A k \in skipped \cap DOMAIN db :
                 IsDue(db[k], now)
                 => \E n \in DOMAIN messages' : messages'[n] = db[k]]_vars

\* a message that was due at a tick whose query failed is still pending and
\* is the one a later tick is about to send
C24_Witness ==
    /\ pollPc = "limiter"
    /\ messages[idx].ID \in skipped \ dispatched
    /\ db[messages[idx].ID].Status = "pending"

\* C25: whatever queries, sends and write-backs fail, the poll loop runs its
\* query again and again
C25_LoopNeverStops == []<><<sendDueMessages>>_vars

\* a message was due at a tick whose query failed, a later tick sent it
\* without success, the write-back of that tick failed, and a third tick
\* has it in its due set
C25_Witness ==
    /\ pollPc = "limiter"
    /\ messages[idx].ID \in skipped \cap gaveUp
    /\ db[messages[idx].ID].Status = "pending"

\* C26: when the store is available from some time on, every stored message
\* that is pending and due, and that no request edits, deletes or reports
\* on, eventually has status sent or failed
C26_DueIsEventuallySettled ==
    <>[]storeUp
    => \A k \in Ids :
          (k \in DOMAIN db /\ IsDue(db[k], now))
          ~> (k \in DOMAIN db /\ db[k].Status \in {"sent", "failed"})

\* a message was due at a tick whose query failed, a later tick sent it
\* without success and could not store that result, and a third tick sent it
\* and stored the result
C26_Witness ==
    /\ pollPc = "idle"
    /\ \E k \in skipped \cap gaveUp \cap DOMAIN db : db[k].Status = "sent"

\* C27: the send of a message starts at most one poll interval after the
\* message became due
C27_SendWithinPollInterval ==
    [][SendStep => now - messages[idx].ScheduledAt <= pollInterval]_vars

\* C28: a handler answers with success only when its write to the store was
\* done: a created record is stored, an edited record is stored as edited, a
\* deleted record is gone, and a callback's update was executed
C28_StoreFailureSurfaced ==
    [][LET requested == StoreRequests
       IN  /\ \A req \in requested :
                 scheduleMessage(req) /\ resp'.code = 201
                 => storeUp /\ nextId \in DOMAIN db'
           /\ updateMessageSave /\ resp'.code = 200
                 => /\ upd.message.ID \in DOMAIN db'
                    /\ db'[upd.message.ID] = upd.message
           /\ \A id \in Ids :
                 deleteMessage(id) /\ resp'.code = 200
                 => storeUp /\ id \notin DOMAIN db'
           /\ \A to \in Phones, status \in ProviderStatuses :
                 handleMessageStatus(to, status) /\ resp'.code = 200
                 => storeUp]_vars

\* C29: every stored record is stored under its own id; no step changes the
\* id or the createdAt of a record that stays stored; and the record that
\* scheduleMessage creates gets an id that no stored record has and no
\* deleted record had
C29_IdsUniqueAndImmutable ==
    [][LET requested == HttpRequests
       IN  /\ \A k \in DOMAIN db' : db'[k].ID = k
           /\ \A k \in DOMAIN db \cap DOMAIN db' :
                 /\ db'[k].ID = db[k].ID
                 /\ db'[k].CreatedAt = db[k].CreatedAt
           /\ \A req \in requested :
                 scheduleMessage(req) /\ resp'.code = 201
                 => /\ resp'.id \notin DOMAIN db \cup DOMAIN deleted
                    /\ DOMAIN db' = DOMAIN db \cup {resp'.id}
                    /\ \A k \in DOMAIN db : db'[k] = db[k]]_vars

\* the last request created a message after a message with a smaller id was
\* deleted
C29_Witness ==
    /\ resp.op = "schedule"
    /\ resp.code = 201
    /\ resp.id \in DOMAIN db
    /\ \E k \in DOMAIN deleted : k < resp.id /\ k \notin DOMAIN db

\* C30: every stored message has a recipient and a body: scheduleMessage and
\* updateMessage answer 400 to a request without a phone number or without a
\* content and leave the store and the update in progress as they were, and
\* no step stores a record with an empty recipient or body
C30_RecipientAndBodyNotEmpty ==
    [][LET incomplete == {req \in StoreRequests :
                             req.PhoneNumber = "" \/ req.Content = ""}
       IN  /\ \A k \in DOMAIN db' :
                 db'[k].PhoneNumber # "" /\ db'[k].Content # ""
           /\ \A req \in incomplete :
                 scheduleMessage(req)
                 => resp' = [op |-> "schedule", id |-> 0, code |-> 400]
                    /\ db' = db
           /\ \A id \in Ids, req \in incomplete :
                 updateMessageRead(id, req)
                 => resp' = [op |-> "update", id |-> id, code |-> 400]
                    /\ upd' = upd /\ db' = db]_vars

\* the second request was an update of the stored pending message, and it
\* was answered 400: it had no phone number or no content
C30_Witness ==
    /\ requests = 2
    /\ nextId = 2
    /\ dispatched = {}
    /\ resp.op = "update"
    /\ resp.code = 400
    /\ resp.id \in DOMAIN db
    /\ db[resp.id].Status = "pending"
    /\ db[resp.id].PhoneNumber # ""
    /\ db[resp.id].Content # ""

\* C31: getMessages answers with every stored message exactly once, as it is
\* stored, each message's scheduledAt being no earlier than that of the
\* message after it, and leaves the store as it was
C31_ListAllDescending ==
    [][getMessages /\ storeUp
          => /\ db' = db
             /\ resp' = [op |-> "list", id |-> 0, code |-> 200]
             /\ Len(listed') = Cardinality(DOMAIN db)
             /\ \A k \in DOMAIN db :
                   Cardinality({n \in DOMAIN listed' : listed'[n] = db[k]}) = 1
             /\ \A n \in 1..(Len(listed') - 1) :
                   listed'[n].ScheduledAt >= listed'[n + 1].ScheduledAt]_vars

\* the last request listed the stored messages, and the message created
\* last, which is scheduled for the latest time, comes first
C31_Witness ==
    /\ resp = [op |-> "list", id |-> 0, code |-> 200]
    /\ Len(listed) >= 2
    /\ listed[1].ID > listed[2].ID
    /\ listed[1].ScheduledAt > listed[2].ScheduledAt
    /\ \A n \in DOMAIN listed :
          listed[n].ID \in DOMAIN db /\ db[listed[n].ID] = listed[n]

\* C32: sendMessage waits 2 seconds after its first and after its second
\* failed attempt and at no other point: the next attempt starts when the 2
\* seconds are over, and the result of a call that made m attempts is
\* written back at the return of the m-th attempt, after m-1 waits
C32_FixedDelayBetweenAttempts ==
    [][/\ pollPc = "call" /\ pollPc' = "sleep"
          => /\ wake' - now = 2 * UnitsPerSecond
             /\ Len(outcomes') \in {1, 2}
             /\ ~AttemptSucceeded(outcomes'[Len(outcomes')])
       /\ pollPc = "sleep" /\ pollPc' # "sleep"
          => pollPc' = "call" /\ now = wake /\ i' = i + 1
       /\ WriteBackStep
          => /\ Len(outcomes') = Len(outcomes) + 1
             /\ i = Len(outcomes') - 1
             /\ now' = now
             /\ \/ AttemptSucceeded(outcomes'[Len(outcomes')])
                \/ Len(outcomes') = 3]_vars

\* sendMessage has returned false at the return of its third attempt, after
\* two waits: with provider calls that return at once, 4 seconds after its
\* start
C32_Witness ==
    /\ pollPc = "idle"
    /\ gaveUp # {}
    /\ Len(outcomes) = 3
    /\ i = 2
    /\ Len(sendStarts) = 1
    /\ now - sendStarts[1] = 2 * (2 * UnitsPerSecond)
    /\ \E k \in gaveUp : db[k].UpdatedAt = now

\* C33: a poll tick calls sendMessage only for a message id for which no
\* earlier sendMessage call was made
C33_SentInOneTickOnly ==
    [][SendStep => messages[idx].ID \notin dispatched]_vars

\* C34: when a poll tick starts the sendMessage call for a message, a record
\* with that id is stored with status pending, and its recipient and body
\* are the ones passed to the provider
C34_SentIsStored ==
    [][SendStep
          => /\ messages[idx].ID \in DOMAIN db
             /\ db[messages[idx].ID].Status = "pending"
             /\ db[messages[idx].ID].PhoneNumber = messages[idx].PhoneNumber
             /\ db[messages[idx].ID].Content = messages[idx].Content]_vars

\* C35: a stored message whose status is not pending does not have status
\* pending after any step
C35_LeavingPendingIsFinal ==
    [][\A k \in DOMAIN db \cap DOMAIN db' :
          db[k].Status # "pending" => db'[k].Status # "pending"]_vars

\* C36: a pass of the poll loop works through its snapshot: the n-th send of
\* the pass is for the n-th message of the snapshot, the result of each send,
\* sent or failed, is written back before the pass goes on, the pass goes on
\* to the next message whatever the result was and ends after the last one,
\* and the snapshot does not change during the pass
C36_WholeSnapshotIsProcessed ==
    [][/\ SendStep
          => /\ Len(sendStarts) = idx - 1
             /\ dispatched' = dispatched \cup {messages[idx].ID}
       /\ WriteBackStep
          => /\ Len(sendStarts) = idx
             /\ db'[messages[idx].ID].Status \in {"sent", "failed"}
             /\ db'[messages[idx].ID].UpdatedAt = now
             /\ IF idx < Len(messages)
                THEN pollPc' = "limiter" /\ idx' = idx + 1
                ELSE pollPc' = "idle"
       /\ pollPc # "idle" /\ pollPc' # "idle" => messages' = messages]_vars

\* a pass on two messages has ended: the send of the first one failed three
\* times, and the second one was sent
C36_Witness ==
    /\ pollPc = "idle"
    /\ Len(sendStarts) = 2
    /\ \E k \in gaveUp \cap DOMAIN db, j \in dispatched \cap DOMAIN db :
          /\ k < j
          /\ db[k].Status = "failed"
          /\ db[j].Status = "sent"
          /\ db[j].UpdatedAt > db[k].UpdatedAt

\* C37: the status of every stored message is pending, sent, failed or a
\* status of the provider, and never the empty string
C37_StatusDomain ==
    \A k \in DOMAIN db :
        /\ db[k].Status # ""
        /\ db[k].Status \in {"pending", "sent", "failed"} \cup ProviderStatuses

\* C38: scheduleMessage and updateMessage accept a request only when its
\* scheduled_at is after the time of the request
C38_AcceptedTimeIsFuture ==
    [][LET requested == StoreRequests
       IN  /\ \A req \in requested :
                 scheduleMessage(req) /\ resp'.code = 201
                 => req.ScheduledAt.at > now
           /\ \A id \in Ids, req \in requested :
                 updateMessageRead(id, req) /\ upd' # NoUpdate
                 => req.ScheduledAt.at > now]_vars

====
